---- MODULE Spec2Model ----
(***************************************************************************)
(* State-machine model of the live voice session hook useLiveAPI          *)
(* (src/hooks/useLiveAPI.ts): session start/stop, the four transport      *)
(* callbacks, microphone capture and the playback scheduler.              *)
(*                                                                         *)
(* Time is a global integer `now`; every AudioContext owns a clock that   *)
(* starts at 0 when the context is created and advances with real time,   *)
(* so the clock of context c reads now - ctxT0[c].                        *)
(* The transport (@google/genai live.connect), getUserMedia and the       *)
(* audio decoder are external: their outcomes are nondeterministic.       *)
(* startSession and stopSession are the hook's operations, callable in    *)
(* any state: the hook itself guards neither.                             *)
(*                                                                         *)
(* Three specifications share the actions:                                *)
(*   Spec         playback path, any number of sessions up to MaxSessions *)
(*   SpecOne      playback path within one startSession call              *)
(*   SpecCapture  session promise and capture path                        *)
(***************************************************************************)
EXTENDS Integers, Sequences, FiniteSets, TLC

\* ---------------------------------------------------------------- bounds
MaxSessions == 2    \* startSession calls explored
MaxMsgs == 2        \* inbound messages explored (over all sessions)
MaxTime == 2        \* ticks of real time explored
MaxBlocks == 2      \* microphone capture blocks explored (over all sessions)

Sessions == 1..MaxSessions
Durations == {1, 2}          \* audioBuffer.duration of a decoded chunk
NoAudio == 0                 \* message without inlineData
NoRef == 0                   \* a ref holding null

\* serverContent of a LiveServerMessage, as onmessage probes it
Messages == [audio: {NoAudio} \cup Durations, intr: BOOLEAN, outT: BOOLEAN, inT: BOOLEAN]

\* the messages that reach the playback scheduler: an audio chunk, an
\* interruption marker or both, without transcription text
AudioMessages == {m \in Messages : ~m.outT /\ ~m.inT /\ (m.audio # NoAudio \/ m.intr)}

VARIABLES
    isActive,         \* useState(false)
    transcripts,      \* useState<string[]>([])
    error,            \* useState<string | null>(null)
    audioContextRef,  \* session whose {input, output} contexts the ref holds, or NoRef
    nextStartTime,    \* nextStartTimeRef.current
    sourcesRef,       \* sourcesRef.current: the buffer sources in the set, each
                      \* [id, ctx, start, dur]
    sessionRef,       \* sessionRef.current: session id or NoRef
    nSess,            \* number of startSession calls so far
    pc,               \* per startSession call: where the async function stands
    ts,               \* per session: state of its transport connection
    ctxT0,            \* per session: time at which its audio contexts were created
    contexts,         \* sessions whose AudioContext pair exists and is not closed
    streams,          \* sessions whose MediaStream exists and is not stopped
    capturing,        \* sessions whose scriptProcessor.onaudioprocess is wired
    queued,           \* per session: frames waiting in sessionPromise.then
    sent,             \* frames handed to session.sendRealtimeInput, in call order
    nBlocks,          \* capture blocks delivered so far
    nMsgs,            \* messages delivered so far
    decoding,         \* onmessage invocations suspended at await decodeAudioData
    now,              \* real time
    \* history
    halted,           \* sources on which stop() was called
    ended,            \* sources whose 'ended' listener removed them from the set
    epoch,            \* interruptions processed so far
    prevEnd,          \* <<start + duration>> of the latest source started since the
                      \* last interruption, or NoPrev
    reports,          \* per session: setError(<message>) calls made for it
    stoppedLive,      \* sessions that were Active when stopSession was called
    lastOp,           \* "stop" after a stopSession call, "stopAgain" after a
                      \* stopSession call that directly follows one, else "other"
    stopped,          \* stopSession was called since the latest startSession call
    started           \* sources on which start() was called

progVars == <<isActive, transcripts, error, audioContextRef, nextStartTime, sourcesRef,
              sessionRef, contexts, streams, capturing, queued, sent>>
envVars == <<nSess, pc, ts, ctxT0, nBlocks, nMsgs, decoding, now>>
histVars == <<halted, ended, epoch, prevEnd, reports, stoppedLive, lastOp, stopped,
             started>>
vars == <<progVars, envVars, histVars>>

\* ---------------------------------------------------------------- helpers
\* output.currentTime of the context pair created by session c
Clock(c) == now - ctxT0[c]

\* the clamp with the cursor forgotten: the output clock alone
ClampStartClockOnly(n, c) == c

\* Math.max(nextStartTimeRef.current, output.currentTime)
ClampStart(n, c) == IF n > c THEN n ELSE c

\* a cursor that is not moved by the chunk's duration
AdvanceNot(n, d) == n

\* nextStartTimeRef.current += audioBuffer.duration
Advance(n, d) == n + d

\* the interrupted branch: stop every source, clear the set, reset the cursor
InterruptedSources(S) == {}
InterruptedCursor(n) == 0

\* stopSession toggling the flag instead of clearing it
StoppedActiveToggle(a) == ~a

\* setIsActive(false) in stopSession
StoppedActive(a) == FALSE

\* a resolution that loses the callbacks registered while it was pending
AfterResolveLosing(out, q) == out

\* sessionPromise resolves: the .then callbacks registered while it was
\* pending run in registration order, each sending its own frame
AfterResolve(out, q) == out \o q

\* an 'ended' listener that leaves the source in the set
WithoutSourceKept(S, h) == S

\* sourcesRef.current.delete(source)
WithoutSource(S, h) == S \ {h}

\* onerror leaving the flag as it is
ErroredActiveKept(a) == a

\* setIsActive(false) in onerror
ErroredActive(a) == FALSE

\* the two setTranscripts appends, output transcription first
WithTranscripts(log, id, m) ==
    LET a == IF m.outT THEN Append(log, <<"AI", id>>) ELSE log
    IN  IF m.inT THEN Append(a, <<"You", id>>) ELSE a

NoPrev == <<>>               \* no source started since the last interruption

Init ==
    /\ isActive = FALSE
    /\ transcripts = <<>>
    /\ error = "null"
    /\ audioContextRef = NoRef
    /\ nextStartTime = 0
    /\ sourcesRef = {}
    /\ sessionRef = NoRef
    /\ nSess = 0
    /\ pc = [s \in Sessions |-> "none"]
    /\ ts = [s \in Sessions |-> "none"]
    /\ ctxT0 = [s \in Sessions |-> 0]
    /\ contexts = {}
    /\ streams = {}
    /\ capturing = {}
    /\ queued = [s \in Sessions |-> <<>>]
    /\ sent = <<>>
    /\ nBlocks = 0
    /\ nMsgs = 0
    /\ decoding = {}
    /\ now = 0
    /\ halted = {}
    /\ ended = {}
    /\ epoch = 0
    /\ prevEnd = NoPrev
    /\ reports = [s \in Sessions |-> 0]
    /\ stoppedLive = {}
    /\ lastOp = "other"
    /\ stopped = FALSE
    /\ started = {}

\* ---------------------------------------------------------------- lifecycle
\* stopSession(): only setIsActive(false); the sessionRef branch is empty
StopSession ==
    /\ isActive' = StoppedActive(isActive)
    /\ stoppedLive' = stoppedLive \cup {s \in 1..nSess : isActive /\ ts[s] = "open"}
    /\ lastOp' = IF lastOp = "other" THEN "stop" ELSE "stopAgain"
    /\ stopped' = TRUE
    /\ UNCHANGED started
    /\ UNCHANGED <<transcripts, error, audioContextRef, nextStartTime, sourcesRef,
                   sessionRef, contexts, streams, capturing, queued, sent>>
    /\ UNCHANGED envVars
    /\ UNCHANGED <<halted, ended, epoch, prevEnd, reports>>

\* startSession() up to its first await: setError(null), create both audio
\* contexts, store them in audioContextRef, call getUserMedia
StartSession ==
    /\ nSess < MaxSessions
    /\ LET s == nSess + 1 IN
        /\ nSess' = s
        /\ error' = "null"
        /\ contexts' = contexts \cup {s}
        /\ ctxT0' = [ctxT0 EXCEPT ![s] = now]
        /\ audioContextRef' = s
        /\ pc' = [pc EXCEPT ![s] = "awaitMic"]
    /\ lastOp' = "other"
    /\ stopped' = FALSE
    /\ UNCHANGED started
    /\ UNCHANGED <<isActive, transcripts, nextStartTime, sourcesRef, sessionRef,
                   streams, capturing, queued, sent>>
    /\ UNCHANGED <<ts, nBlocks, nMsgs, decoding, now>>
    /\ UNCHANGED <<halted, ended, epoch, prevEnd, reports, stoppedLive>>

\* getUserMedia resolves: the stream exists and ai.live.connect is called
MicGranted(s) ==
    /\ pc[s] = "awaitMic"
    /\ streams' = streams \cup {s}
    /\ ts' = [ts EXCEPT ![s] = "connecting"]
    /\ pc' = [pc EXCEPT ![s] = "awaitSession"]
    /\ lastOp' = "other"
    /\ UNCHANGED <<stopped, started>>
    /\ UNCHANGED <<isActive, transcripts, error, audioContextRef, nextStartTime,
                   sourcesRef, sessionRef, contexts, capturing, queued, sent>>
    /\ UNCHANGED <<nSess, ctxT0, nBlocks, nMsgs, decoding, now>>
    /\ UNCHANGED <<halted, ended, epoch, prevEnd, reports, stoppedLive>>

\* getUserMedia rejects (permission denied): the catch block reports
MicDenied(s) ==
    /\ pc[s] = "awaitMic"
    /\ error' = "Could not initialize Live Session."
    /\ reports' = [reports EXCEPT ![s] = @ + 1]
    /\ pc' = [pc EXCEPT ![s] = "failed"]
    /\ lastOp' = "other"
    /\ UNCHANGED <<stopped, started>>
    /\ UNCHANGED <<isActive, transcripts, audioContextRef, nextStartTime, sourcesRef,
                   sessionRef, contexts, streams, capturing, queued, sent>>
    /\ UNCHANGED <<nSess, ts, ctxT0, nBlocks, nMsgs, decoding, now>>
    /\ UNCHANGED <<halted, ended, epoch, prevEnd, stoppedLive>>

\* sessionPromise resolves: sessionRef is set and the queued .then callbacks
\* run in registration order, each calling sendRealtimeInput
ConnectResolve(s) ==
    /\ pc[s] = "awaitSession"
    /\ ts[s] = "open"
    /\ sessionRef' = s
    /\ sent' = AfterResolve(sent, queued[s])
    /\ queued' = [queued EXCEPT ![s] = <<>>]
    /\ pc' = [pc EXCEPT ![s] = "done"]
    /\ lastOp' = "other"
    /\ UNCHANGED <<stopped, started>>
    /\ UNCHANGED <<isActive, transcripts, error, audioContextRef, nextStartTime,
                   sourcesRef, contexts, streams, capturing>>
    /\ UNCHANGED <<nSess, ts, ctxT0, nBlocks, nMsgs, decoding, now>>
    /\ UNCHANGED <<halted, ended, epoch, prevEnd, reports, stoppedLive>>

\* sessionPromise rejects (the transport failed to open): the catch block
\* reports; the .then callbacks never run. The rejection may follow an
\* onerror/onclose of the same attempt; a connection that rejects while
\* still connecting never opens afterwards, and one that has opened (onopen
\* delivered) does not reject.
ConnectReject(s) ==
    /\ pc[s] = "awaitSession"
    /\ ts[s] \in {"connecting", "errored", "closed"}
    /\ s \notin capturing
    /\ error' = "Could not initialize Live Session."
    /\ reports' = [reports EXCEPT ![s] = @ + 1]
    /\ queued' = [queued EXCEPT ![s] = <<>>]
    /\ pc' = [pc EXCEPT ![s] = "failed"]
    /\ ts' = [ts EXCEPT ![s] = IF @ = "connecting" THEN "closed" ELSE @]
    /\ lastOp' = "other"
    /\ UNCHANGED <<stopped, started>>
    /\ UNCHANGED <<isActive, transcripts, audioContextRef, nextStartTime, sourcesRef,
                   sessionRef, contexts, streams, capturing, sent>>
    /\ UNCHANGED <<nSess, ctxT0, nBlocks, nMsgs, decoding, now>>
    /\ UNCHANGED <<halted, ended, epoch, prevEnd, stoppedLive>>

\* ---------------------------------------------------------------- callbacks
\* onopen: setIsActive(true) and wire the script processor to the stream
OnOpen(s) ==
    /\ ts[s] = "connecting"
    /\ ts' = [ts EXCEPT ![s] = "open"]
    /\ isActive' = TRUE
    /\ capturing' = capturing \cup {s}
    /\ lastOp' = "other"
    /\ UNCHANGED <<stopped, started>>
    /\ UNCHANGED <<transcripts, error, audioContextRef, nextStartTime, sourcesRef,
                   sessionRef, contexts, streams, queued, sent>>
    /\ UNCHANGED <<nSess, pc, ctxT0, nBlocks, nMsgs, decoding, now>>
    /\ UNCHANGED <<halted, ended, epoch, prevEnd, reports, stoppedLive>>

\* onerror: setError(...), setIsActive(false)
OnError(s) ==
    /\ ts[s] \in {"connecting", "open"}
    /\ ts' = [ts EXCEPT ![s] = "errored"]
    /\ error' = "Connection failed. Check your microphone and API configuration."
    /\ reports' = [reports EXCEPT ![s] = @ + 1]
    /\ isActive' = ErroredActive(isActive)
    /\ lastOp' = "other"
    /\ UNCHANGED <<stopped, started>>
    /\ UNCHANGED <<transcripts, audioContextRef, nextStartTime, sourcesRef, sessionRef,
                   contexts, streams, capturing, queued, sent>>
    /\ UNCHANGED <<nSess, pc, ctxT0, nBlocks, nMsgs, decoding, now>>
    /\ UNCHANGED <<halted, ended, epoch, prevEnd, stoppedLive>>

\* onclose: setIsActive(false)
OnClose(s) ==
    /\ ts[s] \in {"open", "errored"}
    /\ ts' = [ts EXCEPT ![s] = "closed"]
    /\ isActive' = FALSE
    /\ lastOp' = "other"
    /\ UNCHANGED <<stopped, started>>
    /\ UNCHANGED <<transcripts, error, audioContextRef, nextStartTime, sourcesRef,
                   sessionRef, contexts, streams, capturing, queued, sent>>
    /\ UNCHANGED <<nSess, pc, ctxT0, nBlocks, nMsgs, decoding, now>>
    /\ UNCHANGED <<halted, ended, epoch, prevEnd, reports, stoppedLive>>

\* scriptProcessor.onaudioprocess: encode the block and hand it to
\* sessionPromise.then(session => session.sendRealtimeInput(...))
OnAudioProcess(s) ==
    /\ s \in capturing
    /\ nBlocks < MaxBlocks
    /\ nBlocks' = nBlocks + 1
    /\ LET frame == [sess |-> s, block |-> nBlocks + 1,
                     early |-> pc[s] = "awaitSession",
                     late |-> s \in stoppedLive \/ ts[s] \in {"errored", "closed"}] IN
        /\ sent' = IF pc[s] = "done" THEN Append(sent, frame) ELSE sent
        /\ queued' = IF pc[s] = "awaitSession"
                     THEN [queued EXCEPT ![s] = Append(@, frame)] ELSE queued
    /\ lastOp' = "other"
    /\ UNCHANGED <<stopped, started>>
    /\ UNCHANGED <<isActive, transcripts, error, audioContextRef, nextStartTime,
                   sourcesRef, sessionRef, contexts, streams, capturing>>
    /\ UNCHANGED <<nSess, pc, ts, ctxT0, nMsgs, decoding, now>>
    /\ UNCHANGED <<halted, ended, epoch, prevEnd, reports, stoppedLive>>

\* the part of onmessage after the audio branch: interruption, transcripts.
\* S and n are the source set and cursor the audio branch left behind.
AfterAudio(id, m, S, n) ==
    /\ sourcesRef' = IF m.intr THEN InterruptedSources(S) ELSE S
    /\ halted' = IF m.intr THEN halted \cup {h.id : h \in S} ELSE halted
    /\ nextStartTime' = IF m.intr THEN InterruptedCursor(n) ELSE n
    /\ epoch' = IF m.intr THEN epoch + 1 ELSE epoch
    /\ transcripts' = WithTranscripts(transcripts, id, m)

\* onmessage up to its await: a message with audio clamps the cursor to the
\* current output clock and suspends in decodeAudioData; a message without
\* audio runs to its end.
OnMessage(s, m) ==
    /\ ts[s] = "open"
    /\ nMsgs < MaxMsgs
    /\ nMsgs' = nMsgs + 1
    /\ LET id == nMsgs + 1 IN
        IF m.audio # NoAudio /\ audioContextRef # NoRef
        THEN /\ nextStartTime' = ClampStart(nextStartTime, Clock(audioContextRef))
             /\ decoding' = decoding \cup
                    {[id |-> id, m |-> m, ctx |-> audioContextRef,
                      ep |-> epoch, late |-> s \in stoppedLive]}
             /\ UNCHANGED <<sourcesRef, transcripts, halted, epoch, prevEnd>>
        ELSE /\ AfterAudio(id, m, sourcesRef, nextStartTime)
             /\ prevEnd' = IF m.intr THEN NoPrev ELSE prevEnd
             /\ UNCHANGED decoding
    /\ lastOp' = "other"
    /\ UNCHANGED <<stopped, started>>
    /\ UNCHANGED <<isActive, error, audioContextRef, sessionRef, contexts, streams,
                   capturing, queued, sent>>
    /\ UNCHANGED <<nSess, pc, ts, ctxT0, nBlocks, now>>
    /\ UNCHANGED <<ended, reports, stoppedLive>>

\* decodeAudioData resolves: the rest of onmessage runs. The source is
\* started at the cursor, the cursor advances by the duration, the source
\* joins the set; then the interruption and transcript branches.
DecodeDone(d) ==
    /\ d \in decoding
    /\ decoding' = decoding \ {d}
    /\ prevEnd' = IF d.m.intr THEN NoPrev ELSE <<nextStartTime + d.m.audio>>
    /\ AfterAudio(d.id, d.m,
                  sourcesRef \cup {[id |-> d.id, ctx |-> d.ctx,
                                    start |-> nextStartTime, dur |-> d.m.audio]},
                  Advance(nextStartTime, d.m.audio))
    /\ lastOp' = "other"
    /\ UNCHANGED stopped
    /\ started' = started \cup {d.id}
    /\ UNCHANGED <<isActive, error, audioContextRef, sessionRef, contexts, streams,
                   capturing, queued, sent>>
    /\ UNCHANGED <<nSess, pc, ts, ctxT0, nBlocks, nMsgs, now>>
    /\ UNCHANGED <<ended, reports, stoppedLive>>

\* decodeAudioData rejects (malformed payload): the async handler ends at
\* its await, the rest of onmessage does not run
DecodeFail(d) ==
    /\ d \in decoding
    /\ decoding' = decoding \ {d}
    /\ lastOp' = "other"
    /\ UNCHANGED <<stopped, started>>
    /\ UNCHANGED progVars
    /\ UNCHANGED <<nSess, pc, ts, ctxT0, nBlocks, nMsgs, now>>
    /\ UNCHANGED <<halted, ended, epoch, prevEnd, reports, stoppedLive>>

\* the 'ended' listener of a started source: sourcesRef.current.delete(source).
\* It runs when the buffer has played out; after stop() the source is no
\* longer in the set and the delete changes nothing.
Ended(h) ==
    /\ h \in sourcesRef
    /\ Clock(h.ctx) >= h.start + h.dur
    /\ sourcesRef' = WithoutSource(sourcesRef, h)
    /\ ended' = ended \cup {h.id}
    /\ lastOp' = "other"
    /\ UNCHANGED <<stopped, started>>
    /\ UNCHANGED <<isActive, transcripts, error, audioContextRef, nextStartTime,
                   sessionRef, contexts, streams, capturing, queued, sent>>
    /\ UNCHANGED envVars
    /\ UNCHANGED <<halted, epoch, prevEnd, reports, stoppedLive>>

\* real time passes: every context clock advances
Tick ==
    /\ now < MaxTime
    /\ now' = now + 1
    /\ lastOp' = "other"
    /\ UNCHANGED <<stopped, started>>
    /\ UNCHANGED progVars
    /\ UNCHANGED <<nSess, pc, ts, ctxT0, nBlocks, nMsgs, decoding>>
    /\ UNCHANGED <<halted, ended, epoch, prevEnd, reports, stoppedLive>>

\* The playback path (onmessage, decode completion, 'ended', the clocks)
\* and the steps that open and end sessions. It reads and writes neither the
\* session promise nor the capture queue, so those steps are left to
\* SpecCapture.
\* real time does not stop: as Tick, and beyond MaxTime for as long as a
\* source in the set has not played out
Elapse ==
    /\ \/ now < MaxTime
       \/ \E h \in sourcesRef : Clock(h.ctx) < h.start + h.dur
    /\ now' = now + 1
    /\ lastOp' = "other"
    /\ UNCHANGED <<stopped, started>>
    /\ UNCHANGED progVars
    /\ UNCHANGED <<nSess, pc, ts, ctxT0, nBlocks, nMsgs, decoding>>
    /\ UNCHANGED <<halted, ended, epoch, prevEnd, reports, stoppedLive>>

Next ==
    \/ StartSession
    \/ StopSession
    \/ \E s \in Sessions : MicGranted(s)
    \/ \E s \in Sessions : OnOpen(s)
    \/ \E s \in Sessions : OnError(s)
    \/ \E s \in Sessions : OnClose(s)
    \/ \E s \in Sessions, m \in AudioMessages : OnMessage(s, m)
    \/ \E d \in decoding : DecodeDone(d)
    \/ \E d \in decoding : DecodeFail(d)
    \/ \E h \in sourcesRef : Ended(h)
    \/ Tick

\* The session lifecycle with the session promise, and the capture path
\* (onaudioprocess and the queued sends).
NextCapture ==
    \/ StartSession
    \/ StopSession
    \/ \E s \in Sessions : MicGranted(s)
    \/ \E s \in Sessions : MicDenied(s)
    \/ \E s \in Sessions : ConnectResolve(s)
    \/ \E s \in Sessions : ConnectReject(s)
    \/ \E s \in Sessions : OnOpen(s)
    \/ \E s \in Sessions : OnError(s)
    \/ \E s \in Sessions : OnClose(s)
    \/ \E s \in Sessions : OnAudioProcess(s)

\* The playback path within the lifetime of one startSession call.
NextOne ==
    \/ nSess = 0 /\ StartSession
    \/ StopSession
    \/ \E s \in Sessions : MicGranted(s)
    \/ \E s \in Sessions : OnOpen(s)
    \/ \E s \in Sessions : OnError(s)
    \/ \E s \in Sessions : OnClose(s)
    \/ \E s \in Sessions, m \in AudioMessages : OnMessage(s, m)
    \/ \E d \in decoding : DecodeDone(d)
    \/ \E d \in decoding : DecodeFail(d)
    \/ \E h \in sourcesRef : Ended(h)
    \/ Tick

\* one startSession call whose messages also carry transcription text
NextText ==
    \/ nSess = 0 /\ StartSession
    \/ StopSession
    \/ \E s \in Sessions : MicGranted(s)
    \/ \E s \in Sessions : OnOpen(s)
    \/ \E s \in Sessions : OnError(s)
    \/ \E s \in Sessions : OnClose(s)
    \/ \E s \in Sessions, m \in Messages : OnMessage(s, m)
    \/ \E d \in decoding : DecodeDone(d)
    \/ \E d \in decoding : DecodeFail(d)
    \/ \E h \in sourcesRef : Ended(h)
    \/ Tick

\* capture and lifecycle of one startSession call
NextCaptureOne ==
    \/ nSess = 0 /\ StartSession
    \/ StopSession
    \/ \E s \in Sessions : MicGranted(s)
    \/ \E s \in Sessions : MicDenied(s)
    \/ \E s \in Sessions : ConnectResolve(s)
    \/ \E s \in Sessions : ConnectReject(s)
    \/ \E s \in Sessions : OnOpen(s)
    \/ \E s \in Sessions : OnError(s)
    \/ \E s \in Sessions : OnClose(s)
    \/ \E s \in Sessions : OnAudioProcess(s)

\* one startSession call with a clock that keeps running
NextLive ==
    \/ nSess = 0 /\ StartSession
    \/ StopSession
    \/ \E s \in Sessions : MicGranted(s)
    \/ \E s \in Sessions : OnOpen(s)
    \/ \E s \in Sessions : OnError(s)
    \/ \E s \in Sessions : OnClose(s)
    \/ \E s \in Sessions, m \in AudioMessages : OnMessage(s, m)
    \/ \E d \in decoding : DecodeDone(d)
    \/ \E d \in decoding : DecodeFail(d)
    \/ \E h \in sourcesRef : Ended(h)
    \/ Elapse

Spec == Init /\ [][Next]_vars
SpecCaptureOne == Init /\ [][NextCaptureOne]_vars
SpecText == Init /\ [][NextText]_vars
SpecOne == Init /\ [][NextOne]_vars
SpecCapture == Init /\ [][NextCapture]_vars

\* time passes, and a source that has played out fires 'ended'
SpecLive ==
    /\ Init
    /\ [][NextLive]_vars
    /\ WF_vars(Elapse)
    /\ WF_vars(\E h \in sourcesRef : Ended(h))

\* ---------------------------------------------------------------- claims
\* a step in which the rest of onmessage runs for the suspended invocation d
\* and calls source.start(nextStartTime)
StartStep(d) ==
    /\ d \in decoding
    /\ d \notin decoding'
    /\ d.id \in {h.id : h \in sourcesRef'} \cup halted'

\* a step in which the onmessage invocation for a message carrying the
\* interruption marker comes to its end
InterruptionHandled ==
    \/ epoch' # epoch
    \/ \E d \in decoding : d.m.intr /\ d \notin decoding'

\* sessions that are opening or open
Live(s) == pc[s] = "awaitMic" \/ ts[s] \in {"connecting", "open"}

\* sessions that have come to an end: the start failed, the transport
\* reported an error or closed, or stopSession was called while Active
Over(s) == pc[s] = "failed" \/ ts[s] \in {"errored", "closed"} \/ s \in stoppedLive

\* C1: with no interruption in between, every source starts no earlier than
\* the end (start + duration) of the source started before it, and it starts
\* later than that end only if an output clock has already passed that end.
C1_NoOverlapNoSilentGap ==
    [][\A d \in decoding :
        (StartStep(d) /\ prevEnd # NoPrev) =>
            /\ nextStartTime >= prevEnd[1]
            /\ nextStartTime > prevEnd[1] => \E c \in contexts : Clock(c) > prevEnd[1]]_vars

\* two sources of one uninterrupted run are in flight, the later one started
\* after a gap
C1_Witness ==
    /\ epoch = 0
    /\ \E g, h \in sourcesRef : g.id < h.id /\ h.start > g.start + g.dur

\* C2: whenever the handling of a message that carries the interruption
\* marker ends, every source that was in flight has been stopped, the set is
\* empty, nextStartTime is 0 and isActive is what it was.
C2_InterruptionFlushes ==
    [][InterruptionHandled =>
        /\ {h.id : h \in sourcesRef} \subseteq halted'
        /\ sourcesRef' = {}
        /\ nextStartTime' = 0
        /\ isActive' = isActive]_vars

\* C3: the first source started after an interruption has been processed is
\* started at the output clock's time at the moment of the start call.
C3_FirstAfterInterruptionAtClock ==
    [][\A d \in decoding :
        (StartStep(d) /\ epoch > 0 /\ prevEnd = NoPrev) =>
            nextStartTime = Clock(d.ctx)]_vars

\* C4: at most one session is opening or open at any time.
C4_SingleSession == Cardinality({s \in Sessions : Live(s)}) <= 1

\* C5: no frame handed to sendRealtimeInput comes from a block captured
\* after the session ended (stopSession, onclose or onerror).
C5_NoFrameAfterEnd == \A i \in 1..Len(sent) : ~sent[i].late

\* C6: a stopSession call on an Active session whose transport is open
\* leaves that transport no longer open (close requested) and isActive false.
C6_StopClosesTransport ==
    [][(lastOp' # "other" /\ isActive /\ sessionRef # NoRef /\ ts[sessionRef] = "open") =>
        (ts'[sessionRef] # "open" /\ ~isActive')]_vars

\* C7: no source is started for an audio chunk delivered after stopSession
\* was called on its Active session.
C7_LateChunkDropped ==
    [][\A d \in decoding : StartStep(d) => ~d.late]_vars

\* C8: once a session is over, neither its microphone stream nor its audio
\* contexts are still held.
C8_ResourcesReleased ==
    \A s \in Sessions : Over(s) => (s \notin streams /\ s \notin contexts)

\* C9: a stopSession call that directly follows a stopSession call changes
\* nothing: no state, no reported error, no resource.
C9_StopIdempotent ==
    [][lastOp' = "stopAgain" => UNCHANGED progVars]_vars

\* stopSession was called twice in a row after a session had opened
C9_Witness == lastOp = "stopAgain" /\ \E s \in Sessions : ts[s] = "open"

\* C10: a start that failed before the transport opened (permission denied,
\* or the connect promise rejected) has reported exactly one error and has
\* not made the session Active.
C10_SingleErrorReport ==
    \A s \in Sessions :
        (pc[s] = "failed" /\ s \notin capturing) => reports[s] = 1

\* C11: once onerror has been delivered for the session, a failure reason is
\* recorded and isActive is false, and within that startSession call they
\* stay so: no later event of the session (onclose, onmessage, a decode
\* completing, a source ending) and no stopSession sets isActive again.
C11_ErrorIsTerminal ==
    \A s \in Sessions :
        reports[s] > 0 =>
            /\ ~isActive
            /\ error = "Connection failed. Check your microphone and API configuration."

\* onerror was delivered for a session that had been Active, and later events
\* of that session (its close, the end of a source) have happened
C11_Witness ==
    \E s \in Sessions :
        /\ reports[s] > 0
        /\ s \in capturing
        /\ ts[s] = "closed"
        /\ ended # {}

\* C12: the transcript log is in arrival order: the entries of a message
\* delivered earlier stand before the entries of every message delivered
\* later, also when the earlier message carries an audio chunk whose
\* decoding is still pending when the later message arrives.
C12_TranscriptsInArrivalOrder ==
    \A i, j \in 1..Len(transcripts) :
        i < j => transcripts[i][2] <= transcripts[j][2]

\* the frames of session s in the order of their sendRealtimeInput calls,
\* followed by those whose .then callback has not run yet
FramesOf(s) == SelectSeq(sent, LAMBDA f : f.sess = s) \o queued[s]

\* C13: every block delivered to onaudioprocess is carried by exactly one
\* frame (sent, or waiting for the session promise), each frame carries one
\* block, and the frames of a session reach the transport in capture order,
\* including those captured before the session promise resolved.
C13_OneFramePerBlockInOrder ==
    /\ \A b \in 1..nBlocks :
        Cardinality({<<s, i>> \in Sessions \X (1..MaxBlocks) :
                        i <= Len(FramesOf(s)) /\ FramesOf(s)[i].block = b}) = 1
    /\ \A s \in Sessions : \A i, j \in 1..Len(FramesOf(s)) :
        i < j => FramesOf(s)[i].block < FramesOf(s)[j].block

\* a block was captured while the session promise was pending and a later
\* one after it resolved, and every captured block has been sent
C13_Witness ==
    /\ nBlocks = MaxBlocks
    /\ Len(sent) = MaxBlocks
    /\ sent[1].early
    /\ ~sent[Len(sent)].early

\* C14: every source is started at a time that is not earlier than the
\* output clock's time at the moment source.start is called, however far
\* the clock advanced while the chunk was decoding.
C14_StartNotInPast ==
    [][\A d \in decoding :
        StartStep(d) => nextStartTime >= Clock(d.ctx)]_vars

\* a step in which a session ends: stopSession on an Active session, or
\* onerror/onclose delivered for an open transport
SessionEnds ==
    \/ isActive /\ lastOp' = "stop"
    \/ \E s \in Sessions : ts[s] = "open" /\ ts'[s] \in {"errored", "closed"}

\* C15: when a session ends by stopSession, onclose or onerror, the cursor
\* nextStartTime is 0 afterwards, so that a later session starts its first
\* chunk at its own clock time.
C15_CursorResetAtEnd ==
    [][SessionEnds => nextStartTime' = 0]_vars

\* a step in which the pending decode of d fails
DecodeFailStep(d) ==
    /\ d \in decoding
    /\ d \notin decoding'
    /\ ~StartStep(d)

\* C16: a failed decode drops only its chunk: no source is started or added,
\* isActive and error are unchanged, and the interruption marker and the
\* transcription text of the same message are still processed.
C16_DecodeFailureDropsOnlyChunk ==
    [][\A d \in decoding :
        DecodeFailStep(d) =>
            /\ sourcesRef' \subseteq sourcesRef
            /\ isActive' = isActive
            /\ error' = error
            /\ d.m.intr => (sourcesRef' = {} /\ nextStartTime' = 0 /\ epoch' # epoch)
            /\ transcripts' = WithTranscripts(transcripts, d.id, d.m)]_vars

\* C18: a chunk delivered before an interruption is not started once that
\* interruption has been processed, even when its decoding completes only
\* afterwards.
C18_NoStartAcrossInterruption ==
    [][\A d \in decoding : StartStep(d) => d.ep = epoch]_vars

\* C17: once no further message arrives, every started source plays out and
\* its 'ended' listener removes it: the set of in-flight sources becomes
\* empty and stays empty.
C17_InFlightDrains == <>[](sourcesRef = {})

\* every message has arrived, two chunks were started and both were removed
\* by their 'ended' listeners while the session is Active
C17_Witness ==
    /\ nMsgs = MaxMsgs
    /\ decoding = {}
    /\ Cardinality(ended) >= 2
    /\ sourcesRef = {}
    /\ isActive

\* C19: once stopSession has been called, isActive stays false until the
\* next startSession call: no callback of the stopped session, such as an
\* onopen delivered after the stop, sets it to true.
C19_StoppedStaysInactive ==
    [][(stopped /\ stopped') => ~isActive']_vars

\* a step that is a callback of a session older than the latest one:
\* its onerror or onclose while the latest session is open, or an onmessage
\* delivered when only older sessions are open
EarlierCallback ==
    \/ \E s \in Sessions :
        /\ s < nSess
        /\ ts[nSess] = "open"
        /\ ts[s] = "open"
        /\ ts'[s] \in {"errored", "closed"}
    \/ /\ nMsgs' # nMsgs
       /\ \A s \in Sessions : ts[s] = "open" => s < nSess

\* C20: a callback of an earlier session that arrives after a later
\* startSession call changes neither isActive nor the in-flight set nor
\* nextStartTime, which now belong to the later session.
C20_SessionsIsolated ==
    [][EarlierCallback =>
        UNCHANGED <<isActive, sourcesRef, nextStartTime>>]_vars

\* C21: in every state the in-flight set holds exactly the sources that were
\* started and have neither played out ('ended') nor been stopped by an
\* interruption, and nextStartTime is at least start + duration of every
\* source in the set.
C21_InFlightSetExact ==
    /\ {h.id : h \in sourcesRef} = started \ (ended \cup halted)
    /\ \A h \in sourcesRef : nextStartTime >= h.start + h.dur

\* a source is in flight while another started source has already left the
\* set, by playing out or by an interruption
C21_Witness ==
    /\ sourcesRef # {}
    /\ started \ {h.id : h \in sourcesRef} # {}
    /\ (ended \cup halted) # {}

====
